---- MODULE Spec2Model ----
(***************************************************************************)
(* TailorX-api, "Medidas con IA/APP.py": the garment measurement engine    *)
(* (BodyAnalyzerCompatible.calculate_polera_measurements and               *)
(* calculate_pantalon_measurements) and the /analyze-complete handler.     *)
(*                                                                         *)
(* Numbers.  Pixel coordinates and heights are integers.  A measurement    *)
(* value is kept in tenths of a centimetre (783 is 78.3), a confidence in  *)
(* tenths (8 is 0.8), the classifier's confidence in hundredths.  The      *)
(* scale pixel_to_cm is the rational num/den.  Every pose fed to the       *)
(* engine has integer distances between the points the formulas join       *)
(* (axis-aligned or 3-4-5 segments), so calculate_distance is exact and    *)
(* every value before rounding is a rational; round(v, 1) is computed on   *)
(* that rational.  Python rounds the binary float, so on a decimal tie     *)
(* that is not a binary fraction its result may differ from the            *)
(* half-to-even used here by one tenth; no formula below depends on it.    *)
(* Strings are the source's, without accents and emoji.                    *)
(***************************************************************************)
EXTENDS Integers, Sequences, FiniteSets, TLC

VARIABLES
    landmarks,   \* engine: the landmarks argument of the calls (a Python list)
    height_cm,   \* engine: the height_cm argument of the calls
    calls,       \* engine: the calls made so far, with what they returned
    analyzer,    \* the module-level BodyAnalyzerCompatible instance (self.pose)
    request,     \* per request: request.files and request.form
    pc,          \* per request: where analyze_complete_body stands
    frame,       \* per request: the handler's local variables
    response,    \* per request: the response returned, once there is one
    invoked,     \* per request (history): the call sites reached
    faults       \* per request (history): the sites where an exception was raised

engineVars == <<landmarks, height_cm, calls>>
handlerVars == <<request, pc, frame, response, invoked, faults>>
vars == <<landmarks, height_cm, calls, analyzer, request, pc, frame, response,
          invoked, faults>>

----------------------------------------------------------------------------
(* Bounds of the model *)

\* The longest landmark list fed to the engine (MediaPipe Pose yields 33).
MaxLandmarks == 33
\* The number of engine calls recorded in one behaviour.
MaxCalls == 3
\* The number of recommendation lookups recorded in one behaviour.
MaxLookups == 3

----------------------------------------------------------------------------
(* Arithmetic *)

Abs(n) == IF n < 0 THEN -n ELSE n

SetMin(S) == CHOOSE m \in S : \A n \in S : m <= n
SetMax(S) == CHOOSE m \in S : \A n \in S : m >= n

RECURSIVE IsqrtIn(_, _, _)
IsqrtIn(n, lo, hi) ==
    IF lo >= hi THEN lo
    ELSE LET mid == (lo + hi + 1) \div 2
         IN  IF mid * mid <= n THEN IsqrtIn(n, mid, hi) ELSE IsqrtIn(n, lo, mid - 1)

\* math.sqrt on the squared lengths the poses produce (all perfect squares).
Isqrt(n) == IsqrtIn(n, 0, 2000)

\* The integer nearest to num/den (den > 0), a tie going to the even one.
RoundHalfEven(num, den) ==
    LET q == num \div den
        r == num % den
    IN  IF 2 * r < den THEN q
        ELSE IF 2 * r > den THEN q + 1
        ELSE IF q % 2 = 0 THEN q ELSE q + 1

\* round(v, 1) for v = num/den, in tenths.
round1(num, den) == RoundHalfEven(10 * num, den)

----------------------------------------------------------------------------
(* Landmark lists *)

\* landmarks[i] of the Python list: index i is valid iff i < len(landmarks).
Present(lms, i) == i < Len(lms)
At(lms, i) == lms[i + 1]
IndexFault(lms, idxs) == \E i \in idxs : ~Present(lms, i)

\* The poses: upright / inverted (head below the feet) / flat (every point on
\* one row), shoulders and hips level or tilted along a 3-4-5 segment.
Orientations == {"upright", "inverted", "flat"}
Tilts == {"level", "tilted"}
Shapes == [orient : Orientations, upper : Tilts, lower : Tilts]

UprightPoint(i, shape) ==
    CASE i = 0  -> <<150, 40>>
      [] i = 1  -> <<150, 42>>
      [] i = 2  -> <<150, 44>>
      [] i = 3  -> <<150, 46>>
      [] i = 11 -> <<100, 50>>
      [] i = 12 -> IF shape.upper = "level" THEN <<200, 50>> ELSE <<180, 110>>
      [] i = 15 -> IF shape.upper = "level" THEN <<100, 250>> ELSE <<40, 130>>
      [] i = 16 -> IF shape.upper = "level" THEN <<200, 250>> ELSE <<180, 310>>
      [] i = 23 -> <<110, 300>>
      [] i = 24 -> IF shape.lower = "level" THEN <<190, 300>> ELSE <<158, 364>>
      [] i = 25 -> <<110, 400>>
      [] i = 26 -> <<190, 400>>
      [] i = 27 -> <<110, 480>>
      [] i = 28 -> <<190, 480>>
      [] i = 29 -> <<110, 500>>
      [] i = 30 -> <<190, 500>>
      [] OTHER  -> <<150, 200>>

PosePoint(i, shape) ==
    LET p == UprightPoint(i, shape)
    IN  [id |-> i,
         x  |-> p[1],
         y  |-> CASE shape.orient = "upright"  -> p[2]
                  [] shape.orient = "inverted" -> 540 - p[2]
                  [] OTHER                     -> 270]

\* The first n landmarks of a pose, as the list the detector's loop builds.
PoseList(shape, n) == [k \in 1..n |-> PosePoint(k - 1, shape)]

LandmarkCounts == {0, 5, 9, 10, 13, 17, 25, 27, 29, 30, 31, MaxLandmarks}
Heights == {170, 180}
Genders == {"male", "female"}

----------------------------------------------------------------------------
(* BodyAnalyzerCompatible: the measurement engine *)

\* len(landmarks) >= 10
MinLandmarks == 10

calculate_distance(point1, point2) ==
    Isqrt((point2[1] - point1[1]) * (point2[1] - point1[1])
          + (point2[2] - point1[2]) * (point2[2] - point1[2]))

XY(lms, i) == <<At(lms, i).x, At(lms, i).y>>

HeadIdx == {0, 1, 2, 3}
FeetIdx == {27, 28, 29, 30}

head_y(lms) == SetMin({At(lms, i).y : i \in HeadIdx})
feet_y(lms) == SetMax({At(lms, i).y : i \in FeetIdx})
height_pixels(lms) == feet_y(lms) - head_y(lms)

\* pixel_to_cm with the quotient upside down: height_pixels / height_cm.
pixel_to_cm_inverted(lms, h) ==
    IF height_pixels(lms) > 0
    THEN [num |-> height_pixels(lms), den |-> h]
    ELSE [num |-> 1, den |-> 2]

\* height_cm / height_pixels if height_pixels > 0 else 0.5
pixel_to_cm(lms, h) ==
    IF height_pixels(lms) > 0
    THEN [num |-> h, den |-> height_pixels(lms)]
    ELSE [num |-> 1, den |-> 2]

NoMeasurements == <<>>

Entry(value, confidence, description, category) ==
    [value |-> value, confidence |-> confidence,
     description |-> description, category |-> category]

\* The state of a try block: the measurements dict so far, and whether an
\* IndexError has left the block.
Running(ms) == [measurements |-> ms, fault |-> FALSE]

\* The head/feet indexing that opens both try blocks.
ScaleStep(lms) ==
    IF IndexFault(lms, HeadIdx \cup FeetIdx)
    THEN [measurements |-> NoMeasurements, fault |-> TRUE]
    ELSE Running(NoMeasurements)

\* One "if len(landmarks) > N:" block: skipped when its guard is false or the
\* try block was already left; an index it reads beyond the list leaves the
\* try block with the dict as it is; otherwise it stores its entry.
FormulaStep(acc, lms, guard, needs, name, entry) ==
    IF acc.fault \/ ~guard THEN acc
    ELSE IF IndexFault(lms, needs) THEN [acc EXCEPT !.fault = TRUE]
    ELSE [acc EXCEPT !.measurements = (name :> entry) @@ @]

shoulder_width(lms) == calculate_distance(XY(lms, 11), XY(lms, 12))
hip_width(lms) == calculate_distance(XY(lms, 23), XY(lms, 24))
\* (landmarks[a]['y'] + landmarks[b]['y']) / 2, kept as the sum (twice the mean)
YSum(lms, a, b) == At(lms, a).y + At(lms, b).y

\* The body of calculate_polera_measurements' try block.
polera_try(lms, h) ==
    LET s  == pixel_to_cm(lms, h)
        n  == Len(lms)
        a0 == ScaleStep(lms)
        a1 == FormulaStep(a0, lms, n > 12, {11, 12}, "pecho_polera",
                  Entry(round1(shoulder_width(lms) * 2 * s.num, s.den), 8,
                        "Contorno de pecho para polera", "polera"))
        a2 == FormulaStep(a1, lms, n > 16, {11, 12, 15, 16}, "largo_manga",
                  Entry(round1((calculate_distance(XY(lms, 11), XY(lms, 15))
                                + calculate_distance(XY(lms, 12), XY(lms, 16))) * s.num,
                               2 * s.den), 8,
                        "Largo de manga para polera", "polera"))
        a3 == FormulaStep(a2, lms, n > 12, {11, 12, 23, 24}, "largo_torso",
                  Entry(round1((YSum(lms, 23, 24) - YSum(lms, 11, 12)) * s.num,
                               2 * s.den), 8,
                        "Largo de torso para polera", "polera"))
        a4 == FormulaStep(a3, lms, n > 12, {11, 12}, "ancho_hombros",
                  Entry(round1(shoulder_width(lms) * s.num, s.den), 8,
                        "Ancho de hombros para polera", "polera"))
        a5 == FormulaStep(a4, lms, n > 24, {23, 24}, "cintura_polera",
                  Entry(round1(hip_width(lms) * 2 * s.num, s.den), 8,
                        "Cintura para ajuste de polera", "polera"))
    IN  a5

\* The body of calculate_pantalon_measurements' try block.
pantalon_try(lms, h) ==
    LET s  == pixel_to_cm(lms, h)
        n  == Len(lms)
        a0 == ScaleStep(lms)
        a1 == FormulaStep(a0, lms, n > 24, {23, 24}, "cintura_pantalon",
                  Entry(round1(hip_width(lms) * 2 * s.num, s.den), 8,
                        "Cintura para pantalon", "pantalon"))
        a2 == FormulaStep(a1, lms, n > 24, {23, 24}, "cadera_pantalon",
                  Entry(round1(hip_width(lms) * 22 * s.num, 10 * s.den), 8,
                        "Cadera para pantalon", "pantalon"))
        a3 == FormulaStep(a2, lms, n > 28, {23, 24, 27, 28}, "largo_pierna",
                  Entry(round1((YSum(lms, 23, 24) - YSum(lms, 27, 28)) * s.num,
                               2 * s.den), 8,
                        "Largo exterior de pantalon", "pantalon"))
        a4 == FormulaStep(a3, lms, n > 24, {11, 12, 23, 24}, "largo_tiro",
                  Entry(round1((YSum(lms, 23, 24) - YSum(lms, 11, 12)) * s.num,
                               2 * s.den), 7,
                        "Largo de tiro para pantalon", "pantalon"))
        a5 == FormulaStep(a4, lms, n > 26, {23, 25}, "contorno_muslo",
                  Entry(round1(calculate_distance(XY(lms, 23), XY(lms, 25)) * 18 * s.num,
                               10 * s.den), 7,
                        "Contorno de muslo", "pantalon"))
    IN  a5

\* What a call hands back: the dict, and whether an exception left the call.
Returned(ms) == [measurements |-> ms, raised |-> FALSE]

\* calculate_polera_measurements with the length guard mistyped (>= 1) and no
\* except clause around the try block: the IndexError leaves the call.
calculate_polera_measurements_unguarded(lms, h, gender) ==
    IF Len(lms) >= 1
    THEN [measurements |-> polera_try(lms, h).measurements,
          raised |-> polera_try(lms, h).fault]
    ELSE Returned(NoMeasurements)

\* calculate_polera_measurements with a chest allowance that depends on gender.
calculate_polera_measurements_gendered(lms, h, gender) ==
    LET ms == IF Len(lms) >= MinLandmarks
              THEN polera_try(lms, h).measurements ELSE NoMeasurements
    IN  Returned(IF gender = "female" /\ "pecho_polera" \in DOMAIN ms
                 THEN [ms EXCEPT !["pecho_polera"].value = @ + 20]
                 ELSE ms)

calculate_polera_measurements(lms, h, gender) ==
    IF Len(lms) >= MinLandmarks
    THEN Returned(polera_try(lms, h).measurements)   \* except Exception: print
    ELSE Returned(NoMeasurements)

calculate_pantalon_measurements(lms, h, gender) ==
    IF Len(lms) >= MinLandmarks
    THEN Returned(pantalon_try(lms, h).measurements)   \* except Exception: print
    ELSE Returned(NoMeasurements)

----------------------------------------------------------------------------
(* BodyAnalyzerCompatible: construction, detector, recommendations *)

\* __init__: self.pose, the detector and its configuration. The one Pose
\* object serves every request; graph_outputs is what its last run produced
\* (the pose landmarks, none before any run), which process() fills and then
\* reads back into the results it returns.
NewAnalyzer ==
    [pose |-> [static_image_mode |-> TRUE, model_complexity |-> 1,
               min_detection_confidence |-> 7, graph_outputs |-> <<>>]]

\* What self.pose.process finds in an image: nothing, or a person's landmarks
\* (already scaled to pixels by the loop of lines 48-55).
PoseLandmarks(image) ==
    IF image = "person"
    THEN PoseList([orient |-> "upright", upper |-> "level", lower |-> "level"],
                  MaxLandmarks)
    ELSE <<>>

\* self.pose.process(rgb_image), first half: the shared Pose object runs its
\* graph on the image and keeps the outcome in itself.
pose_process(a, image) ==
    [a EXCEPT !.pose.graph_outputs = PoseLandmarks(image)]

\* self.pose.process(rgb_image), second half: results.pose_landmarks is read
\* from what the shared Pose object holds when the call returns.
pose_results(a) == a.pose.graph_outputs

\* process_image_with_mediapipe: landmarks_data built from the results of
\* self.pose.process; an exception anywhere in its try block is printed and
\* the call returns (None, []).
process_image_with_mediapipe(a, image, raises) ==
    IF raises THEN <<>> ELSE pose_results(a)

FemaleTable ==
    [k \in {"Reloj de Arena", "Triangulo (Pera)", "Triangulo Invertido", "Rectangulo"} |->
        CASE k = "Reloj de Arena" ->
                <<"Poleras ajustadas que marquen la cintura",
                  "Escotes en V para alargar el torso",
                  "Pantalones de tiro medio con corte recto",
                  "Jeans bootcut para equilibrar silueta">>
          [] k = "Triangulo (Pera)" ->
                <<"Poleras con detalles en hombros",
                  "Escotes asimetricos para equilibrio",
                  "Pantalones bootcut para equilibrar",
                  "Evitar poleras ajustadas en cadera">>
          [] k = "Triangulo Invertido" ->
                <<"Poleras con escotes en V",
                  "Evitar hombreras y mangas voluminosas",
                  "Pantalones rectos o acampanados",
                  "Anadir volumen en parte inferior">>
          [] OTHER ->
                <<"Poleras que creen ilusion de curvas",
                  "Cinturones para definir cintura",
                  "Pantalones de tiro alto",
                  "Detalles asimetricos en poleras">>]

MaleTable ==
    [k \in {"Triangulo Invertido (Atletico)", "Trapezoide", "Rectangulo", "Triangulo"} |->
        CASE k = "Triangulo Invertido (Atletico)" ->
                <<"Poleras semi-ajustadas",
                  "Mostrar estructura atletica",
                  "Pantalones de corte recto o slim",
                  "Evitar poleras demasiado holgadas">>
          [] k = "Trapezoide" ->
                <<"Casi cualquier estilo de polera funciona",
                  "Prendas semi-ajustadas ideales",
                  "Pantalones de corte regular o slim",
                  "Versatilidad en estilos">>
          [] k = "Rectangulo" ->
                <<"Poleras que creen estructura",
                  "Camisas con detalles verticales",
                  "Pantalones de corte regular",
                  "Evitar poleras demasiado rectas">>
          [] OTHER ->
                <<"Poleras que anadan volumen superior",
                  "Hombreras ligeras en chaquetas",
                  "Pantalones rectos o ligeramente holgados",
                  "Evitar pantalones ajustados en cadera">>]

recommendations == [g \in {"female", "male"} |-> IF g = "female" THEN FemaleTable ELSE MaleTable]

DefaultRecommendations ==
    <<"Prendas versatiles y comodas",
      "Poleras de ajuste regular",
      "Pantalones de corte clasico">>

\* get_clothing_recommendations with an empty default:
\* recommendations.get(gender, {}).get(body_type, [])
get_clothing_recommendations_nodefault(body_type, gender) ==
    IF gender \in DOMAIN recommendations /\ body_type \in DOMAIN recommendations[gender]
    THEN recommendations[gender][body_type]
    ELSE <<>>

\* recommendations.get(gender, {}).get(body_type, [...])
get_clothing_recommendations(body_type, gender) ==
    IF gender \in DOMAIN recommendations /\ body_type \in DOMAIN recommendations[gender]
    THEN recommendations[gender][body_type]
    ELSE DefaultRecommendations

----------------------------------------------------------------------------
(* analyze_complete_body, the handler of POST /analyze-complete *)

Requests == {1, 2}

\* The uploads and form fields a request may carry.
FrontImages == {"corrupt", "empty_room", "person"}
SideImages == {"person"}
HeightFields == {"180", "abc"}
GenderFields == {"female"}

Field(key, present, value) == IF present THEN key :> value ELSE <<>>

RequestInputs ==
    {[files |-> Field("front_image", hf, f) @@ Field("side_image", hs, sd),
      form  |-> Field("height", hh, h) @@ Field("gender", hg, g)] :
        hf \in BOOLEAN, f \in FrontImages, hs \in BOOLEAN, sd \in SideImages,
        hh \in BOOLEAN, h \in HeightFields, hg \in BOOLEAN, g \in GenderFields}

\* request.form.get('height', 170)
DefaultHeight == 170

\* float(v): the number a string spells, or ValueError.
float(v) ==
    CASE v = "180" -> [ok |-> TRUE, value |-> 180]
      [] v = "170" -> [ok |-> TRUE, value |-> 170]
      [] OTHER     -> [ok |-> FALSE, value |-> 0]

\* Image.open / np.array / cv2.cvtColor: whether the upload decodes.
Decodes(image) == image # "corrupt"

\* The values random.choice(body_types) and
\* round(random.uniform(0.7, 0.9), 2) (in hundredths) may take.
body_types == {"Reloj de Arena", "Triangulo (Pera)", "Triangulo Invertido", "Rectangulo"}
ConfidenceDraws == {70, 90}

NoFrame ==
    [height |-> 0, gender |-> "", front_landmarks |-> <<>>, side_landmarks |-> <<>>,
     landmarks_detected |-> 0, polera_measurements |-> <<>>,
     pantalon_measurements |-> <<>>, body_type |-> "",
     clothing_recommendations |-> <<>>]

NoResponse == [status |-> 0]

\* 'front_image' not in request.files, both conjoined instead of either.
MissingImages_Both(files) ==
    "front_image" \notin DOMAIN files /\ "side_image" \notin DOMAIN files

\* 'front_image' not in request.files or 'side_image' not in request.files
MissingImages(files) ==
    "front_image" \notin DOMAIN files \/ "side_image" \notin DOMAIN files

MissingImagesResponse ==
    [status |-> 400, success |-> FALSE, error |-> "Faltan imagenes",
     message |-> "Se requieren ambas imagenes (frontal y lateral)"]

\* The except clause of the handler: str(e) and a fixed message, status 500.
ErrorResponse(e) ==
    [status |-> 500, success |-> FALSE, error |-> e,
     message |-> "Error en el procesamiento"]

\* The success response, turned into a failure when nothing was detected.
SuccessResponse_RejectsEmpty(f, confidence) ==
    IF f.landmarks_detected = 0
    THEN ErrorResponse("No se detectaron puntos corporales")
    ELSE [status |-> 200, success |-> TRUE,
          polera_measurements |-> f.polera_measurements,
          pantalon_measurements |-> f.pantalon_measurements,
          body_type |-> [type |-> f.body_type, confidence |-> confidence,
                         characteristic |-> "Proporciones detectadas por IA"],
          clothing_recommendations |-> f.clothing_recommendations,
          landmarks_detected |-> f.landmarks_detected,
          message |-> <<"Sistema calculo", Cardinality(DOMAIN f.polera_measurements),
                        "medidas polera y", Cardinality(DOMAIN f.pantalon_measurements),
                        "medidas pantalon">>]

\* The response dict of lines 356-368.
SuccessResponse(f, confidence) ==
    [status |-> 200, success |-> TRUE,
     polera_measurements |-> f.polera_measurements,
     pantalon_measurements |-> f.pantalon_measurements,
     body_type |-> [type |-> f.body_type, confidence |-> confidence,
                    characteristic |-> "Proporciones detectadas por IA"],
     clothing_recommendations |-> f.clothing_recommendations,
     landmarks_detected |-> f.landmarks_detected,
     message |-> <<"Sistema calculo", Cardinality(DOMAIN f.polera_measurements),
                   "medidas polera y", Cardinality(DOMAIN f.pantalon_measurements),
                   "medidas pantalon">>]

Init ==
    /\ landmarks = <<>>
    /\ height_cm = DefaultHeight
    /\ calls = <<>>
    /\ analyzer = NewAnalyzer
    /\ request \in [Requests -> RequestInputs]
    /\ pc = [r \in Requests |-> "validate"]
    /\ frame = [r \in Requests |-> NoFrame]
    /\ response = [r \in Requests |-> NoResponse]
    /\ invoked = [r \in Requests |-> {}]
    /\ faults = [r \in Requests |-> {}]

Goto(r, label) == pc' = [pc EXCEPT ![r] = label]

Reply(r, resp) ==
    /\ response' = [response EXCEPT ![r] = resp]
    /\ Goto(r, "done")

\* An exception reaches the handler's except clause.
Raise(r, site, e) ==
    /\ faults' = [faults EXCEPT ![r] = @ \cup {site}]
    /\ Reply(r, ErrorResponse(e))

\* Lines 313-318.
Validate(r) ==
    /\ pc[r] = "validate"
    /\ IF MissingImages(request[r].files)
       THEN Reply(r, MissingImagesResponse)
       ELSE Goto(r, "form") /\ UNCHANGED response
    /\ UNCHANGED <<engineVars, analyzer, request, frame, invoked, faults>>

\* Lines 320-323: request.files[...], float(request.form.get('height', 170)),
\* request.form.get('gender', 'male').
ReadForm(r) ==
    LET files  == request[r].files
        form   == request[r].form
        height == IF "height" \in DOMAIN form THEN float(form["height"])
                  ELSE [ok |-> TRUE, value |-> DefaultHeight]
        gender == IF "gender" \in DOMAIN form THEN form["gender"] ELSE "male"
    IN  /\ pc[r] = "form"
        /\ IF {"front_image", "side_image"} \subseteq DOMAIN files
           THEN IF height.ok
                THEN /\ frame' = [frame EXCEPT ![r].height = height.value,
                                               ![r].gender = gender]
                     /\ Goto(r, "decode")
                     /\ UNCHANGED <<response, faults>>
                ELSE /\ Raise(r, "height", "could not convert string to float")
                     /\ UNCHANGED frame
           ELSE /\ Raise(r, "files", "400 Bad Request: KeyError")
                /\ UNCHANGED frame
        /\ UNCHANGED <<engineVars, analyzer, request, invoked>>

\* Lines 328-332: Image.open and cv2.cvtColor of both uploads.
DecodeImages(r) ==
    /\ pc[r] = "decode"
    /\ IF Decodes(request[r].files["front_image"]) /\ Decodes(request[r].files["side_image"])
       THEN Goto(r, "detect_front") /\ UNCHANGED <<response, faults>>
       ELSE Raise(r, "decode", "cannot identify image file")
    /\ UNCHANGED <<engineVars, analyzer, request, frame, invoked>>

\* Line 337, into process_image_with_mediapipe up to the run of the shared
\* detector (lines 38-41); no lock is taken around self.pose.process.
DetectFront(r) ==
    /\ pc[r] = "detect_front"
    /\ analyzer' = pose_process(analyzer, request[r].files["front_image"])
    /\ invoked' = [invoked EXCEPT ![r] = @ \cup {"detector_front"}]
    /\ Goto(r, "return_front")
    /\ UNCHANGED <<engineVars, request, frame, response, faults>>

\* Line 337, the rest of the call (lines 41-63): the results are read and
\* the landmark list is returned.
ReturnFront(r) ==
    /\ pc[r] = "return_front"
    /\ \E raises \in BOOLEAN :
        /\ frame' = [frame EXCEPT ![r].front_landmarks =
                        process_image_with_mediapipe(analyzer,
                            request[r].files["front_image"], raises)]
        /\ faults' = [faults EXCEPT ![r] =
                        IF raises THEN @ \cup {"detector_front"} ELSE @]
    /\ Goto(r, "detect_side")
    /\ UNCHANGED <<engineVars, analyzer, request, response, invoked>>

\* Line 338, up to the run of the shared detector.
DetectSide(r) ==
    /\ pc[r] = "detect_side"
    /\ analyzer' = pose_process(analyzer, request[r].files["side_image"])
    /\ invoked' = [invoked EXCEPT ![r] = @ \cup {"detector_side"}]
    /\ Goto(r, "return_side")
    /\ UNCHANGED <<engineVars, request, frame, response, faults>>

\* Line 338, the rest of the call.
ReturnSide(r) ==
    /\ pc[r] = "return_side"
    /\ \E raises \in BOOLEAN :
        /\ frame' = [frame EXCEPT ![r].side_landmarks =
                        process_image_with_mediapipe(analyzer,
                            request[r].files["side_image"], raises)]
        /\ faults' = [faults EXCEPT ![r] =
                        IF raises THEN @ \cup {"detector_side"} ELSE @]
    /\ Goto(r, "measure_polera")
    /\ UNCHANGED <<engineVars, analyzer, request, response, invoked>>

\* Lines 340-345.
MeasurePolera(r) ==
    LET f   == frame[r]
        out == calculate_polera_measurements(f.front_landmarks, f.height, f.gender)
    IN  /\ pc[r] = "measure_polera"
        /\ invoked' = [invoked EXCEPT ![r] = @ \cup {"polera"}]
        /\ IF out.raised
           THEN Raise(r, "polera", "list index out of range") /\ UNCHANGED frame
           ELSE /\ frame' = [frame EXCEPT
                                ![r].landmarks_detected = Len(f.front_landmarks),
                                ![r].polera_measurements = out.measurements]
                /\ Goto(r, "measure_pantalon")
                /\ UNCHANGED <<response, faults>>
        /\ UNCHANGED <<engineVars, analyzer, request>>

\* Line 346.
MeasurePantalon(r) ==
    LET f   == frame[r]
        out == calculate_pantalon_measurements(f.front_landmarks, f.height, f.gender)
    IN  /\ pc[r] = "measure_pantalon"
        /\ invoked' = [invoked EXCEPT ![r] = @ \cup {"pantalon"}]
        /\ IF out.raised
           THEN Raise(r, "pantalon", "list index out of range") /\ UNCHANGED frame
           ELSE /\ frame' = [frame EXCEPT ![r].pantalon_measurements = out.measurements]
                /\ Goto(r, "classify")
                /\ UNCHANGED <<response, faults>>
        /\ UNCHANGED <<engineVars, analyzer, request>>

\* Lines 349-350: body_type = random.choice(body_types).
Classify(r) ==
    /\ pc[r] = "classify"
    /\ \E choice \in body_types :
        frame' = [frame EXCEPT ![r].body_type = choice]
    /\ invoked' = [invoked EXCEPT ![r] = @ \cup {"classifier"}]
    /\ Goto(r, "recommend")
    /\ UNCHANGED <<engineVars, analyzer, request, response, faults>>

\* Line 353.
Recommend(r) ==
    /\ pc[r] = "recommend"
    /\ frame' = [frame EXCEPT ![r].clothing_recommendations =
                    get_clothing_recommendations(frame[r].body_type, frame[r].gender)]
    /\ invoked' = [invoked EXCEPT ![r] = @ \cup {"recommend"}]
    /\ Goto(r, "respond")
    /\ UNCHANGED <<engineVars, analyzer, request, response, faults>>

\* Lines 356-371.
Respond(r) ==
    /\ pc[r] = "respond"
    /\ \E confidence \in ConfidenceDraws :
        Reply(r, SuccessResponse(frame[r], confidence))
    /\ UNCHANGED <<engineVars, analyzer, request, frame, invoked, faults>>

Next ==
    \E r \in Requests :
        \/ Validate(r)
        \/ ReadForm(r)
        \/ DecodeImages(r)
        \/ DetectFront(r)
        \/ ReturnFront(r)
        \/ DetectSide(r)
        \/ ReturnSide(r)
        \/ MeasurePolera(r)
        \/ MeasurePantalon(r)
        \/ Classify(r)
        \/ Recommend(r)
        \/ Respond(r)

Spec == Init /\ [][Next]_vars

----------------------------------------------------------------------------
(* The engine called on a fixed (landmarks, height_cm), any gender *)

InitEngine ==
    /\ landmarks \in {PoseList(s, n) : s \in Shapes, n \in LandmarkCounts}
    /\ height_cm \in Heights
    /\ calls = <<>>
    /\ analyzer = NewAnalyzer
    /\ request = [r \in Requests |-> [files |-> <<>>, form |-> <<>>]]
    /\ pc = [r \in Requests |-> "idle"]
    /\ frame = [r \in Requests |-> NoFrame]
    /\ response = [r \in Requests |-> NoResponse]
    /\ invoked = [r \in Requests |-> {}]
    /\ faults = [r \in Requests |-> {}]

CallPolera(gender) ==
    /\ Len(calls) < MaxCalls
    /\ calls' = Append(calls, [fn |-> "polera", gender |-> gender,
                    out |-> calculate_polera_measurements(landmarks, height_cm, gender)])
    /\ UNCHANGED <<landmarks, height_cm, analyzer, handlerVars>>

CallPantalon(gender) ==
    /\ Len(calls) < MaxCalls
    /\ calls' = Append(calls, [fn |-> "pantalon", gender |-> gender,
                    out |-> calculate_pantalon_measurements(landmarks, height_cm, gender)])
    /\ UNCHANGED <<landmarks, height_cm, analyzer, handlerVars>>

NextEngine ==
    \/ \E g \in Genders : CallPolera(g)
    \/ \E g \in Genders : CallPantalon(g)

SpecEngine == InitEngine /\ [][NextEngine]_vars

----------------------------------------------------------------------------
(* get_clothing_recommendations called on any (body_type, gender) *)

\* The arguments of the lookups: every label of either table, a label of
\* neither, and the two genders of the table beside one it does not know.
BodyTypeInputs ==
    DOMAIN FemaleTable \cup DOMAIN MaleTable \cup {"Ovalo"}
GenderInputs == {"female", "male", "other"}

InitRecommend ==
    /\ landmarks = <<>>
    /\ height_cm = DefaultHeight
    /\ calls = <<>>
    /\ analyzer = NewAnalyzer
    /\ request = [r \in Requests |-> [files |-> <<>>, form |-> <<>>]]
    /\ pc = [r \in Requests |-> "idle"]
    /\ frame = [r \in Requests |-> NoFrame]
    /\ response = [r \in Requests |-> NoResponse]
    /\ invoked = [r \in Requests |-> {}]
    /\ faults = [r \in Requests |-> {}]

CallRecommend(body_type, gender) ==
    /\ Len(calls) < MaxLookups
    /\ calls' = Append(calls, [fn |-> "recommend", body_type |-> body_type,
                    gender |-> gender,
                    out |-> get_clothing_recommendations(body_type, gender)])
    /\ UNCHANGED <<landmarks, height_cm, analyzer, handlerVars>>

NextRecommend ==
    \E b \in BodyTypeInputs, g \in GenderInputs : CallRecommend(b, g)

SpecRecommend == InitRecommend /\ [][NextRecommend]_vars

----------------------------------------------------------------------------
(* Claims about the measurement engine, checked under SpecEngine *)

PoleraCalls == {k \in DOMAIN calls : calls[k].fn = "polera"}
PantalonCalls == {k \in DOMAIN calls : calls[k].fn = "pantalon"}
MeasurementsOf(k) == calls[k].out.measurements

\* The landmark indices each measurement's own formula reads.
OwnIndices(name) ==
    CASE name = "pecho_polera"     -> {11, 12}
      [] name = "largo_manga"      -> {11, 12, 15, 16}
      [] name = "largo_torso"      -> {11, 12, 23, 24}
      [] name = "ancho_hombros"    -> {11, 12}
      [] name = "cintura_polera"   -> {23, 24}
      [] name = "cintura_pantalon" -> {23, 24}
      [] name = "cadera_pantalon"  -> {23, 24}
      [] name = "largo_pierna"     -> {23, 24, 27, 28}
      [] name = "largo_tiro"       -> {11, 12, 23, 24}
      [] name = "contorno_muslo"   -> {23, 25}

NamesOf(fn) ==
    IF fn = "polera"
    THEN {"pecho_polera", "largo_manga", "largo_torso", "ancho_hombros", "cintura_polera"}
    ELSE {"cintura_pantalon", "cadera_pantalon", "largo_pierna", "largo_tiro",
          "contorno_muslo"}

\* The spec's pixel_height and distance, computed by their definitions.
PixelHeight ==
    LET top == CHOOSE t \in {landmarks[i + 1].y : i \in 0..3} :
                   \A i \in 0..3 : t <= landmarks[i + 1].y
        low == CHOOSE b \in {landmarks[i + 1].y : i \in 27..30} :
                   \A i \in 27..30 : b >= landmarks[i + 1].y
    IN  low - top

Distance(a, b) ==
    CHOOSE d \in 0..1000 :
        d * d = (landmarks[a + 1].x - landmarks[b + 1].x) * (landmarks[a + 1].x - landmarks[b + 1].x)
                + (landmarks[a + 1].y - landmarks[b + 1].y) * (landmarks[a + 1].y - landmarks[b + 1].y)

HeadAndFeetPresent == Len(landmarks) >= 31

\* v (tenths) is num/den centimetres rounded to one decimal: |v/10 - num/den| <= 0.05.
IsRounded1(v, num, den) == 2 * Abs(v * den - 10 * num) <= den

\* C1: called with at least 10 landmarks, every measurement whose own landmark
\* indices are all present is returned, whatever other landmarks are absent.
C1_PartialResults ==
    \A k \in DOMAIN calls :
        Len(landmarks) >= 10 =>
            \A name \in NamesOf(calls[k].fn) :
                (\A i \in OwnIndices(name) : i < Len(landmarks))
                    => name \in DOMAIN MeasurementsOf(k)

\* C2: every returned measurement value is non-negative (height_cm > 0).
C2_NonNegativeValues ==
    \A k \in DOMAIN calls :
        height_cm > 0 =>
            \A name \in DOMAIN MeasurementsOf(k) : MeasurementsOf(k)[name].value >= 0

\* C4: when pixel_height <= 0, or head (0..3) or foot (27..30) landmarks are
\* missing, the scale is 0.5: with the shoulders present, ancho_hombros is
\* returned as the shoulder distance times 0.5.
C4_FallbackScale ==
    \A k \in PoleraCalls :
        (/\ Len(landmarks) >= 10
         /\ Len(landmarks) > 12
         /\ (~HeadAndFeetPresent \/ PixelHeight <= 0))
        => /\ "ancho_hombros" \in DOMAIN MeasurementsOf(k)
           /\ IsRounded1(MeasurementsOf(k)["ancho_hombros"].value, Distance(11, 12), 2)

\* The part of C4 the code keeps: a complete landmark list with
\* pixel_height <= 0 is measured with the scale 0.5.
C4_FallbackOnDegenerateHeight ==
    \A k \in PoleraCalls :
        (HeadAndFeetPresent /\ PixelHeight <= 0)
        => /\ "ancho_hombros" \in DOMAIN MeasurementsOf(k)
           /\ IsRounded1(MeasurementsOf(k)["ancho_hombros"].value, Distance(11, 12), 2)

\* C5: with fewer than 10 landmarks both functions return an empty
\* MeasurementSet and raise nothing.
C5_FewLandmarksEmpty ==
    \A k \in DOMAIN calls :
        Len(landmarks) < 10 =>
            /\ DOMAIN MeasurementsOf(k) = {}
            /\ ~calls[k].out.raised

C5_Witness ==
    /\ Len(landmarks) = 5
    /\ PoleraCalls # {}
    /\ PantalonCalls # {}

ScenarioA == PoseList([orient |-> "upright", upper |-> "level", lower |-> "level"],
                      MaxLandmarks)

\* C9: on a complete landmark list with pixel_height > 0, pecho_polera is
\* distance(L_shoulder, R_shoulder) * 2.0 * height_cm / pixel_height rounded to
\* one decimal, with confidence 0.8; in scenario A pixel_height is 460 and
\* pecho_polera is 78.3.
C9_ChestFromScale ==
    \A k \in PoleraCalls :
        (HeadAndFeetPresent /\ PixelHeight > 0) =>
            /\ "pecho_polera" \in DOMAIN MeasurementsOf(k)
            /\ MeasurementsOf(k)["pecho_polera"].confidence = 8
            /\ IsRounded1(MeasurementsOf(k)["pecho_polera"].value,
                          Distance(11, 12) * 2 * height_cm, PixelHeight)
            /\ (landmarks = ScenarioA /\ height_cm = 180) =>
                   /\ PixelHeight = 460
                   /\ MeasurementsOf(k)["pecho_polera"].value = 783

C9_Witness ==
    /\ landmarks = ScenarioA
    /\ height_cm = 180
    /\ \E k \in PoleraCalls : MeasurementsOf(k)["pecho_polera"].value = 783

\* C10: two calls of the same function on the same landmarks and height return
\* identical MeasurementSets, whatever their gender arguments and whatever
\* was called in between (every call of a behaviour has the same landmarks and
\* height_cm).
C10_GenderIndependent ==
    \A j, k \in DOMAIN calls :
        calls[j].fn = calls[k].fn => calls[j].out = calls[k].out

C10_Witness ==
    /\ Len(calls) = 3
    /\ calls[1].fn = "polera" /\ calls[3].fn = "polera"
    /\ calls[2].fn = "pantalon"
    /\ calls[1].gender # calls[3].gender
    /\ DOMAIN calls[1].out.measurements # {}

----------------------------------------------------------------------------
(* Claims about the /analyze-complete handler, checked under Spec *)

Done(r) == pc[r] = "done"
Succeeded(r) == response[r].status = 200 /\ response[r].success

\* C3: the body-type label in a response is one of the 4 labels valid for the
\* gender of that request (a key of that gender's recommendation table), and
\* the confidence lies in [0.7, 0.9].
C3_LabelValidForGender ==
    \A r \in Requests :
        (Done(r) /\ Succeeded(r) /\ frame[r].gender \in {"female", "male"}) =>
            /\ response[r].body_type.type \in DOMAIN recommendations[frame[r].gender]
            /\ response[r].body_type.confidence \in 70..90

\* C6: a runtime fault while a request is processed (parsing the height,
\* decoding an image, inside the pose-detector call) ends in a failure
\* response without measurement data, never in success=true.
C6_FaultsSurface ==
    \A r \in Requests :
        (Done(r) /\ faults[r] # {}) =>
            /\ response[r].success = FALSE
            /\ "polera_measurements" \notin DOMAIN response[r]
            /\ "pantalon_measurements" \notin DOMAIN response[r]

\* The part of C6 the code keeps: a fault outside the detector call is answered
\* with success=false, and a finished request holds one well-formed response.
C6_HandlerFaultsSurface ==
    \A r \in Requests :
        /\ (Done(r) /\ faults[r] \cap {"files", "height", "decode"} # {}) =>
                response[r] = ErrorResponse(response[r].error)
        /\ Done(r) <=> response[r] # NoResponse

FrontFoundNobody(r) ==
    /\ "detector_front" \in invoked[r]
    /\ "detector_front" \notin faults[r]
    /\ frame[r].front_landmarks = <<>>

\* C7: when the detector finds no person in the front image the request
\* succeeds: success=true, both MeasurementSets empty, landmarks_detected = 0.
C7_EmptyDetectionSucceeds ==
    \A r \in Requests :
        (Done(r) /\ FrontFoundNobody(r)) =>
            /\ response[r].status = 200
            /\ response[r].success = TRUE
            /\ DOMAIN response[r].polera_measurements = {}
            /\ DOMAIN response[r].pantalon_measurements = {}
            /\ response[r].landmarks_detected = 0

C7_Witness ==
    \E r \in Requests :
        /\ Done(r)
        /\ FrontFoundNobody(r)
        /\ request[r].files["front_image"] = "empty_room"
        /\ response[r].status = 200

ImageAbsent(r) ==
    \/ "front_image" \notin DOMAIN request[r].files
    \/ "side_image" \notin DOMAIN request[r].files

\* C8: a request lacking the front image, the side image or both is answered
\* with success=false, an error category and a message and nothing else, and
\* neither the detector, the measurement functions, the classifier nor the
\* recommendation lookup is ever invoked for it.
C8_MissingImagesHardFailure ==
    \A r \in Requests :
        ImageAbsent(r) =>
            /\ invoked[r] = {}
            /\ pc[r] \in {"validate", "done"}
            /\ Done(r) =>
                response[r] = [status |-> 400, success |-> FALSE,
                               error |-> "Faltan imagenes",
                               message |-> "Se requieren ambas imagenes (frontal y lateral)"]

C8_Witness ==
    \E r \in Requests :
        /\ Done(r)
        /\ "front_image" \in DOMAIN request[r].files
        /\ "side_image" \notin DOMAIN request[r].files
        /\ response[r].status = 400

----------------------------------------------------------------------------
(* Concurrent requests through the shared analyzer, checked under Spec *)

\* What request r produces when it is served alone, with the same uploads,
\* form fields and detector faults: the detector's answer for its own front
\* image, its own height and gender.
AloneFront(r) ==
    IF "detector_front" \in faults[r]
    THEN <<>>
    ELSE PoseLandmarks(request[r].files["front_image"])

AloneHeight(r) ==
    IF "height" \in DOMAIN request[r].form
    THEN float(request[r].form["height"]).value
    ELSE DefaultHeight

AloneGender(r) ==
    IF "gender" \in DOMAIN request[r].form THEN request[r].form["gender"] ELSE "male"

Measured(r) == pc[r] \in {"measure_pantalon", "classify", "recommend", "respond"}

----------------------------------------------------------------------------
(* Claims about get_clothing_recommendations, checked under SpecRecommend *)

\* The (gender, body type) pairs the table lists.
InTable(gender, body_type) ==
    \/ gender = "female" /\ body_type \in DOMAIN FemaleTable
    \/ gender = "male" /\ body_type \in DOMAIN MaleTable

\* C11: recommend(body_type, gender) never returns an empty list: a pair of
\* the table gets that pair's list, every other pair (an unknown gender, a
\* body type not listed for the gender) gets the same default list of exactly
\* 3 entries.
C11_RecommendNeverEmpty ==
    \A k \in DOMAIN calls :
        /\ Len(calls[k].out) > 0
        /\ InTable(calls[k].gender, calls[k].body_type) =>
               calls[k].out = (IF calls[k].gender = "female"
                               THEN FemaleTable ELSE MaleTable)[calls[k].body_type]
        /\ ~InTable(calls[k].gender, calls[k].body_type) =>
               /\ Len(calls[k].out) = 3
               /\ calls[k].out = DefaultRecommendations

\* A lookup of the table, one with an unknown gender and one with a body type
\* of the other gender's table have all been made.
C11_Witness ==
    /\ Len(calls) = 3
    /\ calls[1].gender = "female" /\ calls[1].body_type = "Reloj de Arena"
    /\ calls[1].out = FemaleTable["Reloj de Arena"]
    /\ calls[2].gender = "other"
    /\ Len(calls[2].out) = 3
    /\ calls[3].gender = "male" /\ calls[3].body_type = "Reloj de Arena"
    /\ Len(calls[3].out) = 3

====
